---------------------------- MODULE Spec2Model ----------------------------
(***************************************************************************)
(* A model of scraper.py: load_excel -> scrape_data -> write_json ->       *)
(* write_excel, driven by run.                                             *)
(*                                                                         *)
(* Python strings on which the program computes (library names, cell       *)
(* texts, urls) are sequences of one-character strings, so that split,     *)
(* join, strptime and isoformat are computed character by character.       *)
(* Dictionary keys and exception names, on which the program performs no   *)
(* string operation, are plain strings.                                    *)
(***************************************************************************)
EXTENDS Integers, Sequences, FiniteSets, TLC

VARIABLES
    sheet,                        \* workbook.worksheets[0]: rows of 12 cells
    newSheet,                     \* the sheet write_excel adds, or NoSheet
    jsonFile,                     \* what json.dump wrote, or NoFile
    dependencies,                 \* the list of dicts handed from step to step
    pc,                           \* position of run / scrape_data
    idx,                          \* position of the enumerate / range iterator
    i,                            \* scrape_data's local variable i
    driver,                       \* scrape_data's local variable driver
    open,                         \* browser instances whose window is open
    rowData,                      \* scrape_data's local variable rowData
    first_rows_of_version_table,
    failed_url,
    pages,                        \* the page each visited record turned out to have
    error,                        \* the exception that ended the run, or NoError
    call                          \* a direct call of formatLibrary and its result

vars == <<sheet, newSheet, jsonFile, dependencies, pc, idx, i, driver, open,
          rowData, first_rows_of_version_table, failed_url, pages, error, call>>

(***************************************************************************)
(* Bounds of the model.                                                    *)
(***************************************************************************)
MaxRecords == 2      \* data rows of the sheet: 0..MaxRecords
MaxNameLen == 3      \* length of the generated library names

(***************************************************************************)
(* Values.                                                                 *)
(***************************************************************************)
NaN == [kind |-> "nan"]                                   \* math.nan
Str(s) == [kind |-> "str", s |-> s]
DateTime(y, m, d) == [kind |-> "datetime", y |-> y, m |-> m, d |-> d]
Raised(e) == [kind |-> "raise", exc |-> e]                \* a call that raises e

NoSheet == [kind |-> "none"]
NoFile == [kind |-> "none"]
NoError == "none"
NoCall == [kind |-> "none"]

\* `not x or (type(x) is float and math.isnan(x))`: NaN is truthy in Python,
\* the empty string is falsy.
IsAbsent(x) == (x.kind = "str" /\ x.s = <<>>) \/ x.kind = "nan"

(***************************************************************************)
(* str.split(sep), "".join, str.split()                                    *)
(***************************************************************************)
Last(s) == s[Len(s)]
Front(s) == SubSeq(s, 1, Len(s) - 1)

RECURSIVE SplitFrom(_, _, _, _)
\* tokens of s from position p on, cur being the token read so far
SplitFrom(s, sep, p, cur) ==
    IF p > Len(s) THEN <<cur>>
    ELSE IF s[p] = sep THEN <<cur>> \o SplitFrom(s, sep, p + 1, <<>>)
    ELSE SplitFrom(s, sep, p + 1, Append(cur, s[p]))

Split(s, sep) == SplitFrom(s, sep, 1, <<>>)

RECURSIVE Join(_)
Join(list) == IF list = <<>> THEN <<>> ELSE Head(list) \o Join(Tail(list))

RECURSIVE NonEmpty(_)
NonEmpty(list) ==
    IF list = <<>> THEN <<>>
    ELSE IF Head(list) = <<>> THEN NonEmpty(Tail(list))
    ELSE <<Head(list)>> \o NonEmpty(Tail(list))

\* str.split() with no argument: runs of whitespace separate, no empty token
SplitWhitespace(s) == NonEmpty(Split(s, " "))

(***************************************************************************)
(* formatLibrary, formatVulnerability                                      *)
(***************************************************************************)
formatLibrary_hyphen_join(libName, versionNumber) ==
    IF IsAbsent(libName) THEN NaN
    ELSE LET libNameList == Split(libName.s, "-")
             extension == Last(Split(Last(libNameList), "."))
             RECURSIVE JoinHyphen(_)
             JoinHyphen(l) == IF Len(l) <= 1 THEN Join(l)
                              ELSE Head(l) \o <<"-">> \o JoinHyphen(Tail(l))
         IN  Str(JoinHyphen(Front(libNameList)) \o <<"-">> \o versionNumber.s
                 \o <<".">> \o extension)

formatLibrary(libName, versionNumber) ==
    IF IsAbsent(libName) THEN NaN
    ELSE LET libNameList == Split(libName.s, "-")
             extension == Last(Split(Last(libNameList), "."))
         IN  Str(Join(Front(libNameList)) \o <<"-">> \o versionNumber.s
                 \o <<".">> \o extension)

formatVulnerability(vulnerabilitiesString) ==
    IF IsAbsent(vulnerabilitiesString) THEN NaN
    ELSE LET tokens == SplitWhitespace(vulnerabilitiesString.s)
         IN  IF tokens = <<>> THEN Raised("IndexError") ELSE Str(tokens[1])

(***************************************************************************)
(* formatDate: datetime.strptime(dateString, "%b %d, %Y").  _strptime      *)
(* turns the format into the regular expression                            *)
(*   (?P<b>jan|feb|...)\s+(?P<d>3[0-1]|[1-2]\d|0[1-9]|[1-9]| [1-9]),\s+     *)
(*   (?P<Y>\d\d\d\d)                                                       *)
(* matched ignoring case from the start of the text, refuses text left     *)
(* over after the match, and then builds the date, which refuses a day the *)
(* month does not have and the year 0.  Each refusal is a ValueError.      *)
(***************************************************************************)
UpperCase == <<"A", "B", "C", "D", "E", "F", "G", "H", "I", "J", "K", "L", "M",
               "N", "O", "P", "Q", "R", "S", "T", "U", "V", "W", "X", "Y", "Z">>
LowerCase == <<"a", "b", "c", "d", "e", "f", "g", "h", "i", "j", "k", "l", "m",
               "n", "o", "p", "q", "r", "s", "t", "u", "v", "w", "x", "y", "z">>
Lower(c) ==
    IF \E n \in 1..Len(UpperCase) : UpperCase[n] = c
    THEN LowerCase[CHOOSE n \in 1..Len(UpperCase) : UpperCase[n] = c]
    ELSE c

Digits == <<"0", "1", "2", "3", "4", "5", "6", "7", "8", "9">>
IsDigit(c) == \E n \in 1..Len(Digits) : Digits[n] = c
DigitVal(c) == (CHOOSE n \in 1..Len(Digits) : Digits[n] = c) - 1

RECURSIVE Number(_)
Number(ds) == IF ds = <<>> THEN 0 ELSE 10 * Number(Front(ds)) + DigitVal(Last(ds))

\* calendar.month_abbr of the C locale, lowered as _strptime.LocaleTime does
MonthAbbr == << <<"j", "a", "n">>, <<"f", "e", "b">>, <<"m", "a", "r">>,
                <<"a", "p", "r">>, <<"m", "a", "y">>, <<"j", "u", "n">>,
                <<"j", "u", "l">>, <<"a", "u", "g">>, <<"s", "e", "p">>,
                <<"o", "c", "t">>, <<"n", "o", "v">>, <<"d", "e", "c">> >>

RECURSIVE SkipSpaces(_, _)
\* the first position from p on that holds no whitespace
SkipSpaces(s, p) ==
    IF p <= Len(s) /\ s[p] = " " THEN SkipSpaces(s, p + 1) ELSE p

RECURSIVE SkipDigits(_, _)
\* the first position from p on that holds no digit
SkipDigits(s, p) ==
    IF p <= Len(s) /\ IsDigit(s[p]) THEN SkipDigits(s, p + 1) ELSE p

IsLeap(y) == (y % 4 = 0 /\ y % 100 # 0) \/ y % 400 = 0
DaysInMonth(y, m) ==
    IF m = 2 THEN (IF IsLeap(y) THEN 29 ELSE 28)
    ELSE IF m \in {4, 6, 9, 11} THEN 30 ELSE 31

\* where the groups of the regular expression lie in s
DateGroups(s) ==
    LET dayFrom == SkipSpaces(s, 4)
        dayTo == SkipDigits(s, dayFrom)
        yearFrom == SkipSpaces(s, dayTo + 1)
        yearTo == SkipDigits(s, yearFrom)
    IN  [dayFrom |-> dayFrom, dayTo |-> dayTo, yearFrom |-> yearFrom,
         yearTo |-> yearTo]

\* the text is matched by the regular expression, with nothing left over
MatchesDateFormat(s) ==
    LET g == DateGroups(s)
    IN  /\ Len(s) >= 3
        /\ \E m \in 1..Len(MonthAbbr) :
              MonthAbbr[m] = [n \in 1..3 |-> Lower(s[n])]
        /\ g.dayFrom > 4
        /\ g.dayTo - g.dayFrom \in {1, 2}
        /\ Number(SubSeq(s, g.dayFrom, g.dayTo - 1)) \in 1..31
        /\ g.dayTo <= Len(s) /\ s[g.dayTo] = ","
        /\ g.yearFrom > g.dayTo + 1
        /\ g.yearTo - g.yearFrom = 4
        /\ g.yearTo = Len(s) + 1

strptime(s) ==
    IF ~MatchesDateFormat(s) THEN Raised("ValueError")
    ELSE LET g == DateGroups(s)
             month == CHOOSE m \in 1..Len(MonthAbbr) :
                         MonthAbbr[m] = [n \in 1..3 |-> Lower(s[n])]
             day == Number(SubSeq(s, g.dayFrom, g.dayTo - 1))
             year == Number(SubSeq(s, g.yearFrom, g.yearTo - 1))
         IN  IF year < 1 \/ day > DaysInMonth(year, month)
             THEN Raised("ValueError")
             ELSE DateTime(year, month, day)

formatDate_swallow(dateString) ==
    IF IsAbsent(dateString) \/ strptime(dateString.s).kind = "raise" THEN NaN
    ELSE strptime(dateString.s)

formatDate(dateString) ==
    IF IsAbsent(dateString) THEN NaN ELSE strptime(dateString.s)

(***************************************************************************)
(* datetime.isoformat() of a datetime at midnight: YYYY-MM-DDT00:00:00     *)
(***************************************************************************)
RECURSIVE ZeroPadded(_, _)
ZeroPadded(n, width) ==
    IF width = 0 THEN <<>>
    ELSE ZeroPadded(n \div 10, width - 1) \o <<Digits[(n % 10) + 1]>>

isoformat(value) ==
    ZeroPadded(value.y, 4) \o <<"-">> \o ZeroPadded(value.m, 2) \o <<"-">>
        \o ZeroPadded(value.d, 2) \o <<"T", "0", "0", ":", "0", "0", ":", "0", "0">>

(***************************************************************************)
(* The workbook.  A sheet is its rows, a row its 12 cells (columns A..L);  *)
(* a cell is a text or blank, which pandas reads as NaN.  The first row    *)
(* names the columns, the second is the row load_excel skips, the data     *)
(* rows follow.  Cells the program does not interpret hold the letter of   *)
(* their column.                                                           *)
(***************************************************************************)
ColumnLetter == <<"A", "B", "C", "D", "E", "F", "G", "H", "I", "J", "K", "L">>

LibraryCells == {NaN, Str(<<"a", "-", "b", "-", "1", ".", "j">>)}
UrlCells == {NaN, Str(<<"u", "1">>), Str(<<"u", "2">>)}

TitleRow(tag) == [c \in 1..Len(ColumnLetter) |-> Str(<<tag, ColumnLetter[c]>>)]
DataRow(library, url) ==
    [c \in 1..Len(ColumnLetter) |->
        IF c = 6 THEN library ELSE IF c = 11 THEN url ELSE Str(<<ColumnLetter[c]>>)]
DataRows == {DataRow(l, u) : l \in LibraryCells, u \in UrlCells}

Sheets ==
    {<<TitleRow("#"), TitleRow("=")>> \o rows :
        rows \in UNION {[1..n -> DataRows] : n \in 0..MaxRecords}}

(***************************************************************************)
(* load_excel                                                              *)
(***************************************************************************)
load_excel(ws) ==
    LET df == SubSeq(ws, 2, Len(ws))            \* read_excel: row 1 is the header
        \* df.iloc[1:, 5:12], 0-based: from the second row on, columns F..L
        cropped == [r \in 1..(Len(df) - 1) |-> SubSeq(df[r + 1], 6, 12)]
    IN  [n \in 1..Len(cropped) |->
            [library |-> cropped[n][1], vulnerabilities |-> cropped[n][2],
             date |-> cropped[n][4], url |-> cropped[n][6]]]

(***************************************************************************)
(* What a record's page turns out to be when its browser visits it.        *)
(***************************************************************************)
Cell(text) == [readable |-> TRUE, text |-> text]
UnreadableCell == [readable |-> FALSE]           \* cell.text raises

GetRaises == [kind |-> "get_raises"]             \* driver.get(url) raises
LookupRaises == [kind |-> "lookup_raises"]       \* a find_element raises
Table(headers, cells) == [kind |-> "table", headers |-> headers, cells |-> cells]

VersionText == <<"9", ".", "9">>
VulnerabilityText == <<"3", " ", "v", "u", "l", "n", "s">>
DateText == <<"J", "a", "n", " ", "5", ",", " ", "2", "0", "2", "4">>
LeapDateText == <<"f", "e", "b", " ", " ", "2", "9", ",", " ", "2", "0", "2", "4">>
IsoDateText == <<"2", "0", "2", "4", "-", "0", "1", "-", "0", "5">>

ReleasePage ==
    Table(<<"Version", "Vulnerabilities", "Date">>,
          <<Cell(VersionText), Cell(VulnerabilityText), Cell(DateText)>>)
UnreadableCellPage ==
    Table(<<"Version", "Vulnerabilities", "Date">>,
          <<Cell(VersionText), UnreadableCell, Cell(LeapDateText)>>)
IsoDatePage ==
    Table(<<"Version", "Vulnerabilities", "Date">>,
          <<Cell(VersionText), Cell(<<>>), Cell(IsoDateText)>>)
ExtraCellPage ==
    Table(<<"Version">>, <<Cell(VersionText), Cell(DateText)>>)
NoDateColumnPage ==
    Table(<<"Version", "Vulnerabilities">>,
          <<Cell(VersionText), Cell(VulnerabilityText)>>)

Pages == {GetRaises, LookupRaises, ReleasePage, UnreadableCellPage, IsoDatePage,
          ExtraCellPage, NoDateColumnPage}

\* a blank url cell reaches driver.get as NaN, which no browser navigates to
PagesAt(url) == IF url.kind = "str" THEN Pages ELSE {GetRaises}

(***************************************************************************)
(* The try block of scrape_data and its except clause.                     *)
(***************************************************************************)
NoRow == <<>>
DefaultRow ==
    ("Version" :> Str(<<>>)) @@ ("Vulnerabilities" :> Str(<<>>))
        @@ ("Date" :> Str(<<>>))

RECURSIVE PairCells(_, _, _, _, _)
\* `for i, cell in enumerate(cells)` from cell k (0-based) on; the loop
\* variable is the function's one variable i
PairCells(headers, cells, k, row, iNow) ==
    IF k >= Len(cells) THEN [raised |-> FALSE, rowData |-> row, i |-> iNow]
    ELSE IF k >= Len(headers) THEN [raised |-> TRUE, rowData |-> row, i |-> k]
    ELSE LET x == IF cells[k + 1].readable THEN cells[k + 1].text ELSE <<>>
         IN  PairCells(headers, cells, k + 1,
                       (headers[k + 1] :> Str(x)) @@ row, k)

\* the try block entered with i = iNow: whether it raised, and rowData and i
\* as it leaves them
TryBlock(page, iNow) ==
    IF page.kind = "table"
    THEN PairCells(page.headers, page.cells, 0, NoRow, iNow)
    ELSE [raised |-> TRUE, rowData |-> NoRow, i |-> iNow]

PageRaises(page) == TryBlock(page, 0).raised

(***************************************************************************)
(* The formatting loop's body, write_json's conversion, write_excel's      *)
(* cells.                                                                  *)
(***************************************************************************)
\* lines 141-152 for one record: the exception raised, or the record updated
FormatRow(dep, row) ==
    IF {"Version", "Date", "Vulnerabilities"} \ DOMAIN row # {}
    THEN [exc |-> "KeyError", dep |-> dep]
    ELSE LET formatedVersion == formatLibrary(dep.library, row["Version"])
             formatedVulnerability == formatVulnerability(row["Vulnerabilities"])
             formatedDate == formatDate(row["Date"])
         IN  IF formatedVulnerability.kind = "raise"
             THEN [exc |-> formatedVulnerability.exc, dep |-> dep]
             ELSE IF formatedDate.kind = "raise"
             THEN [exc |-> formatedDate.exc, dep |-> dep]
             ELSE [exc |-> NoError,
                   dep |-> [dep EXCEPT !.date = formatedDate,
                                       !.library = formatedVersion,
                                       !.vulnerabilities = formatedVulnerability]]

\* lines 187-191 for one dict
JsonValues(dep) ==
    [k \in DOMAIN dep |->
        IF dep[k].kind = "nan" THEN Str(<<>>)
        ELSE IF dep[k].kind = "datetime" THEN Str(isoformat(dep[k]))
        ELSE dep[k]]

BlankRow == [c \in 1..Len(ColumnLetter) |-> NaN]

\* new_sheet.cell(row=r, column=c, value=v): the sheet grows to hold the cell
SetCell(sh, r, c, v) ==
    LET grown == sh \o [n \in 1..(r - Len(sh)) |-> BlankRow]
    IN  [grown EXCEPT ![r][c] = v]

RECURSIVE WriteRows(_, _, _, _)
\* lines 218-221 from record n on, record n going to row start + n - 1
WriteRows(sh, deps, n, start) ==
    IF n > Len(deps) THEN sh
    ELSE LET row_idx == start + n - 1
             row_data == deps[n]
         IN  WriteRows(SetCell(SetCell(SetCell(sh, row_idx, 6, row_data.library),
                                       row_idx, 7, row_data.vulnerabilities),
                               row_idx, 9, row_data.date),
                       deps, n + 1, start)

write_excel_from_row_2(ws, deps) == WriteRows(ws, deps, 1, 2)

\* the copy of the first sheet with the records written into it
write_excel(ws, deps) == WriteRows(ws, deps, 1, 3)

(***************************************************************************)
(* The run.                                                                *)
(***************************************************************************)
Unbound == [bound |-> FALSE]
Chrome(n) == [bound |-> TRUE, instance |-> n]

close_pass(drv) == open

\* driver.close()
close(drv) == open \ {drv.instance}

Init ==
    /\ sheet \in Sheets
    /\ newSheet = NoSheet
    /\ jsonFile = NoFile
    /\ dependencies = <<>>
    /\ pc = "load_excel"
    /\ idx = 0
    /\ i = -1
    /\ driver = Unbound
    /\ open = {}
    /\ rowData = NoRow
    /\ first_rows_of_version_table = <<>>
    /\ failed_url = <<>>
    /\ pages = <<>>
    /\ error = NoError
    /\ call = NoCall

\* run: load_excel, then scrape_data up to its loop
LoadExcel ==
    /\ pc = "load_excel"
    /\ dependencies' = load_excel(sheet)
    /\ pc' = "for"
    /\ UNCHANGED <<sheet, newSheet, jsonFile, idx, i, driver, open, rowData,
                   first_rows_of_version_table, failed_url, pages, error, call>>

\* the loop takes record idx and launches its browser
Launch ==
    /\ pc = "for"
    /\ idx < Len(dependencies)
    /\ i' = idx
    /\ driver' = Chrome(idx)
    /\ open' = open \cup {idx}
    /\ pc' = "try"
    /\ UNCHANGED <<sheet, newSheet, jsonFile, dependencies, idx, rowData,
                   first_rows_of_version_table, failed_url, pages, error, call>>

\* the try block on the page the browser finds, and the except clause
Try ==
    /\ pc = "try"
    /\ LET url == dependencies[idx + 1].url
       IN  \E page \in PagesAt(url) :
              LET t == TryBlock(page, i)
              IN  /\ i' = t.i
                  /\ rowData' = IF t.raised THEN DefaultRow ELSE t.rowData
                  /\ failed_url' = IF t.raised THEN (t.i :> url) @@ failed_url
                                   ELSE failed_url
                  /\ pages' = Append(pages, page)
    /\ pc' = "finally"
    /\ UNCHANGED <<sheet, newSheet, jsonFile, dependencies, idx, driver, open,
                   first_rows_of_version_table, error, call>>

\* the finally clause and the rest of the loop body
Finally ==
    /\ pc = "finally"
    /\ open' = close(driver)
    /\ first_rows_of_version_table' = Append(first_rows_of_version_table, rowData)
    /\ idx' = idx + 1
    /\ pc' = "for"
    /\ UNCHANGED <<sheet, newSheet, jsonFile, dependencies, i, driver, rowData,
                   failed_url, pages, error, call>>

\* the loop is over: driver.quit(), which needs driver bound
Quit ==
    /\ pc = "for"
    /\ idx = Len(dependencies)
    /\ IF driver.bound
       THEN /\ open' = open \ {driver.instance}
            /\ idx' = 0
            /\ pc' = "format"
            /\ error' = error
       ELSE /\ pc' = "aborted"
            /\ error' = "UnboundLocalError"
            /\ UNCHANGED <<open, idx>>
    /\ UNCHANGED <<sheet, newSheet, jsonFile, dependencies, i, driver, rowData,
                   first_rows_of_version_table, failed_url, pages, call>>

\* one pass of the formatting loop
FormatRecord ==
    /\ pc = "format"
    /\ idx < Len(dependencies)
    /\ i' = idx
    /\ LET f == FormatRow(dependencies[idx + 1],
                          first_rows_of_version_table[idx + 1])
       IN  IF f.exc = NoError
           THEN /\ dependencies' = [dependencies EXCEPT ![idx + 1] = f.dep]
                /\ idx' = idx + 1
                /\ UNCHANGED <<pc, error>>
           ELSE /\ pc' = "aborted"
                /\ error' = f.exc
                /\ UNCHANGED <<dependencies, idx>>
    /\ UNCHANGED <<sheet, newSheet, jsonFile, driver, open, rowData,
                   first_rows_of_version_table, failed_url, pages, call>>

\* scrape_data returns dependencies to run
Return ==
    /\ pc = "format"
    /\ idx = Len(dependencies)
    /\ pc' = "write_json"
    /\ UNCHANGED <<sheet, newSheet, jsonFile, dependencies, idx, i, driver, open,
                   rowData, first_rows_of_version_table, failed_url, pages,
                   error, call>>

\* dep_copy holds the dicts of dependencies themselves
WriteJson ==
    /\ pc = "write_json"
    /\ dependencies' = [n \in 1..Len(dependencies) |-> JsonValues(dependencies[n])]
    /\ jsonFile' = [kind |-> "json", records |-> dependencies']
    /\ pc' = "write_excel"
    /\ UNCHANGED <<sheet, newSheet, idx, i, driver, open, rowData,
                   first_rows_of_version_table, failed_url, pages, error, call>>

WriteExcel ==
    /\ pc = "write_excel"
    /\ newSheet' = [kind |-> "sheet", rows |-> write_excel(sheet, dependencies)]
    /\ pc' = "done"
    /\ UNCHANGED <<sheet, jsonFile, dependencies, idx, i, driver, open, rowData,
                   first_rows_of_version_table, failed_url, pages, error, call>>

Next ==
    \/ LoadExcel
    \/ Launch
    \/ Try
    \/ Finally
    \/ Quit
    \/ FormatRecord
    \/ Return
    \/ WriteJson
    \/ WriteExcel

Spec == Init /\ [][Next]_vars

(***************************************************************************)
(* formatLibrary called on its own.                                        *)
(***************************************************************************)
NameChars == {"a", "-", "."}
ExampleName == <<"f", "o", "o", "-", "b", "a", "r", "-", "1", ".", "2", ".", "3",
                 ".", "j", "a", "r">>
ExampleVersion == <<"9", ".", "9", ".", "9">>
ExampleResult == <<"f", "o", "o", "b", "a", "r", "-", "9", ".", "9", ".", "9",
                   ".", "j", "a", "r">>

NameArgs ==
    {NaN, Str(ExampleName)}
        \cup {Str(s) : s \in UNION {[1..n -> NameChars] : n \in 0..MaxNameLen}}
VersionArgs == {Str(<<>>), Str(<<"7">>), Str(ExampleVersion)}

InitCall ==
    /\ call \in {[kind |-> "call", libName |-> n, versionNumber |-> v,
                  returned |-> FALSE, result |-> NaN] :
                    n \in NameArgs, v \in VersionArgs}
    /\ sheet = <<TitleRow("#"), TitleRow("=")>>
    /\ newSheet = NoSheet
    /\ jsonFile = NoFile
    /\ dependencies = <<>>
    /\ pc = "call"
    /\ idx = 0
    /\ i = -1
    /\ driver = Unbound
    /\ open = {}
    /\ rowData = NoRow
    /\ first_rows_of_version_table = <<>>
    /\ failed_url = <<>>
    /\ pages = <<>>
    /\ error = NoError

CallFormatLibrary ==
    /\ pc = "call"
    /\ ~call.returned
    /\ call' = [call EXCEPT !.returned = TRUE,
                            !.result = formatLibrary(call.libName, call.versionNumber)]
    /\ UNCHANGED <<sheet, newSheet, jsonFile, dependencies, pc, idx, i, driver,
                   open, rowData, first_rows_of_version_table, failed_url, pages,
                   error>>

NextCall == CallFormatLibrary

SpecCall == InitCall /\ [][NextCall]_vars

(***************************************************************************)
(* Properties.                                                             *)
(***************************************************************************)
Loaded == load_excel(sheet)              \* the records as load_excel read them
ThreeKeys == {"Version", "Vulnerabilities", "Date"}
LoopOver == {"format", "write_json", "write_excel", "done"}
Returned == {"write_json", "write_excel", "done"}

\* rowData as the loop appends it for a page
RowOf(page) ==
    IF PageRaises(page) THEN DefaultRow ELSE TryBlock(page, 0).rowData

\* a non-empty Date text that the pattern "%b %d, %Y" does not match
OffPattern(row) ==
    /\ "Date" \in DOMAIN row
    /\ row["Date"].s # <<>>
    /\ ~MatchesDateFormat(row["Date"].s)

\* the records as the formatting loop leaves them when nothing raises
Normalized ==
    [k \in 1..Len(Loaded) |->
        FormatRow(Loaded[k], first_rows_of_version_table[k]).dep]

\* C1: for every record count N, 0 included, and every mix of scrape
\* successes and failures, scrape_data ends its loop with exactly N raw
\* outcomes, outcome k being record k's, and returns the N records in the
\* input order: it never ends otherwise.
C1_ScrapeDataReturnsEveryRecord ==
    /\ pc # "aborted"
    /\ pc \in LoopOver =>
          /\ Len(first_rows_of_version_table) = Len(Loaded)
          /\ \A k \in 1..Len(Loaded) :
                first_rows_of_version_table[k] = RowOf(pages[k])
    /\ pc \in Returned =>
          /\ Len(dependencies) = Len(Loaded)
          /\ \A k \in 1..Len(Loaded) : dependencies[k].url = Loaded[k].url

\* C2: when scrape_data returns, every record whose scrape raised has an
\* empty or absent library, vulnerabilities and date, and its loaded url,
\* whatever its loaded library name was.
C2_FailedRecordIsBlank ==
    pc = "write_json" =>
        \A k \in 1..Len(dependencies) :
            PageRaises(pages[k]) =>
                /\ IsAbsent(dependencies[k].library)
                /\ IsAbsent(dependencies[k].vulnerabilities)
                /\ IsAbsent(dependencies[k].date)
                /\ dependencies[k].url = Loaded[k].url

\* C3: after the scrape loop the keys of failed_url are exactly the
\* positions (from 0) of the records whose scrape raised, wherever in the
\* try block it raised, and each key maps to the url of its record.
C3_FailureMapMatchesFailures ==
    pc \in LoopOver =>
        /\ DOMAIN failed_url =
              {k \in 0..(Len(Loaded) - 1) : PageRaises(pages[k + 1])}
        /\ \A k \in DOMAIN failed_url \cap 0..(Len(Loaded) - 1) :
              failed_url[k] = Loaded[k + 1].url

\* C4: at most one browser is open in any state; the one open while a
\* record is scraped is that record's; none is open when the next record's
\* is about to be launched, when the formatting starts, or at any later
\* point, whether the scrape raised or not.
C4_OneBrowserAtATime ==
    /\ Cardinality(open) <= 1
    /\ pc \in {"try", "finally"} => open = {idx}
    /\ pc \notin {"try", "finally"} => open = {}

C4_Witness ==
    /\ pc = "try"
    /\ idx = 1
    /\ PageRaises(pages[1])
    /\ open = {1}

\* C5: a record whose scraped Date text is non-empty and off the pattern is
\* never formatted past: formatDate raises ValueError there (when the calls
\* before it in the loop body did not raise), the run ends aborted with no
\* JSON file written and no sheet added; and a run aborted by formatDate
\* was aborted at a record whose scrape did not raise.
C5_OffPatternDateAbortsRun ==
    /\ pc = "format" =>
          \A k \in 1..idx : ~OffPattern(first_rows_of_version_table[k])
    /\ (pc \in Returned \/ jsonFile # NoFile \/ newSheet # NoSheet) =>
          \A k \in 1..Len(first_rows_of_version_table) :
              ~OffPattern(first_rows_of_version_table[k])
    /\ (pc = "aborted" /\ error = "ValueError") =>
          /\ ~PageRaises(pages[idx + 1])
          /\ first_rows_of_version_table[idx + 1]["Date"].s # <<>>
          /\ jsonFile = NoFile
          /\ newSheet = NoSheet
    /\ (/\ pc = "aborted"
        /\ idx < Len(first_rows_of_version_table)
        /\ OffPattern(first_rows_of_version_table[idx + 1])
        /\ ThreeKeys \subseteq DOMAIN first_rows_of_version_table[idx + 1]
        /\ formatVulnerability(
              first_rows_of_version_table[idx + 1]["Vulnerabilities"]).kind
                # "raise")
          => error = "ValueError"

C5_Witness ==
    /\ pc = "aborted"
    /\ error = "ValueError"
    /\ idx = 1
    /\ PageRaises(pages[1])
    /\ OffPattern(first_rows_of_version_table[2])
    /\ jsonFile = NoFile
    /\ newSheet = NoSheet

\* C6: write_json leaves every field of every record as the formatting
\* loop set it, so the cells write_excel fills hold the normalizer's values
\* (NaN, datetime), not their JSON forms.
C6_SinksAreIndependent ==
    /\ pc \in {"write_excel", "done"} => dependencies = Normalized
    /\ pc = "done" =>
          \A k \in 1..Len(Loaded) :
              /\ newSheet.rows[k + 2][6] = Normalized[k].library
              /\ newSheet.rows[k + 2][7] = Normalized[k].vulnerabilities
              /\ newSheet.rows[k + 2][9] = Normalized[k].date

\* C7: the url of every record is, in every state up to the end of run,
\* the value load_excel read, a blank (NaN) url cell included.
C7_UrlNeverMutated ==
    \A k \in 1..Len(dependencies) : dependencies[k].url = Loaded[k].url

\* the last position of s that holds c, 0 when none does
LastIndex(s, c) ==
    IF \E p \in 1..Len(s) : s[p] = c
    THEN CHOOSE p \in 1..Len(s) : s[p] = c /\ \A q \in (p + 1)..Len(s) : s[q] # c
    ELSE 0

NotHyphen(c) == c # "-"

\* C8: formatLibrary(name, version) is the absent marker for an empty or
\* missing name; otherwise it is the text before the last hyphen with its
\* hyphens removed, then "-", version, ".", and what follows the last dot
\* of the text after the last hyphen (that whole text when it has no dot);
\* a name without hyphen gives an empty prefix; "foo-bar-1.2.3.jar" with
\* "9.9.9" gives "foobar-9.9.9.jar".
C8_FormatLibraryResult ==
    (call.kind = "call" /\ call.returned) =>
        LET name == call.libName
            version == call.versionNumber.s
        IN  IF name.kind = "nan" \/ name.s = <<>> THEN call.result = NaN
            ELSE LET h == LastIndex(name.s, "-")
                     base == SelectSeq(SubSeq(name.s, 1, h - 1), NotHyphen)
                     lastToken == SubSeq(name.s, h + 1, Len(name.s))
                     d == LastIndex(lastToken, ".")
                     extension == SubSeq(lastToken, d + 1, Len(lastToken))
                 IN  /\ call.result =
                          Str(base \o <<"-">> \o version \o <<".">> \o extension)
                     /\ h = 0 => SubSeq(call.result.s, 1, 1 + Len(version))
                                    = <<"-">> \o version
                     /\ (name.s = ExampleName /\ version = ExampleVersion)
                            => call.result.s = ExampleResult

C8_Witness ==
    /\ call.kind = "call"
    /\ call.returned
    /\ call.libName = Str(ExampleName)
    /\ call.versionNumber = Str(ExampleVersion)
    /\ call.result = Str(ExampleResult)

\* C9: every raw outcome appended for the formatting loop has the keys
\* "Version", "Vulnerabilities" and "Date", and the formatting loop never
\* raises KeyError.
C9_RawOutcomesHaveTheThreeKeys ==
    /\ \A k \in 1..Len(first_rows_of_version_table) :
          ThreeKeys \subseteq DOMAIN first_rows_of_version_table[k]
    /\ error # "KeyError"

=============================================================================
